---- MODULE Spec2Model ----
(***************************************************************************)
(* Model of the payment intermediary: ingress -> queue -> worker pool ->   *)
(* (health flags, circuit breakers) -> external processors -> ledger.      *)
(*                                                                         *)
(* Stores (queue list, ledger hashes, ledger sorted set, health hashes)    *)
(* are the Redis structures the code uses; every store call may fail, and  *)
(* a failed call takes the branch the code takes on Err.                   *)
(***************************************************************************)
EXTENDS Integers, Sequences, FiniteSets, TLC

\* ---------------------------------------------------------------- bounds
NumIds == 2
NumWorkers == 2
NumSelectors == 2
MaxEnqueues == 2
BreakerWindow == 2
MaxTime == 2
MaxPushes == 4

Ids == 1 .. NumIds
Workers == 1 .. NumWorkers
Selectors == 1 .. NumSelectors
Groups == {"default", "fallback"}
Times == 0 .. MaxTime

\* amount of payment cid, in thousandths of the currency unit (never a tie
\* between two cent values)
AmountOf(cid) == 1000 * cid + 994 + 2 * (cid % 2)

VARIABLES
    queue,        \* Redis list payments_queue; index 1 is the left end
    hashes,       \* payment_summary:{group}:{id} hashes, keyed <<group, id>>
    zset,         \* sorted set processed_payments: id -> score
    healthStore,  \* health:{name} hashes: name -> [failing, min_response_time]
    processors,   \* InMemoryPaymentRouter.processors: name -> PaymentProcessor
    breaker,      \* one circuit breaker per processor
    charged,      \* external processors: ids each one has answered 2xx for
    steady,       \* external processors: TRUE while one is in a good period
                  \* (answers every probe and every first POST of an id 2xx)
    storeSteady,  \* TRUE while no store call fails
    pc,           \* position of each worker in its loop
    msg,          \* message each worker holds (<<>> when none)
    marked,       \* history: the ledger marked the held message's id at its pop
    processed,    \* the worker's local `processed`
    requested,    \* requested_at stamped by the attempt in flight
    accepted,     \* ids for which POST /payments answered 200
    nEnq,         \* number of ingress pushes so far
    now,          \* wall clock
    selected,     \* last result of get_processor_for_payment
    summary,      \* last result of get_summary_by_group
    down,         \* external processors that answer 500 to every payment call
    monPc,        \* position of the health monitor in its loop
    probed,       \* history: the monitor's latest probe, [name, resp]
    pushed,       \* history: messages pushed onto the list under test, in order
    popped,       \* history: messages a single consumer popped from it, in order
    clearPc,      \* position of the clear() call in progress ("idle" when none)
    clearKeys,    \* the keys clear() got from KEYS payment_summary:*
    clearResult,  \* history: what the latest clear() returned
    posted,       \* history: the latest POST /payments, [cid, reachable, status]
    rwlock,       \* the RwLock around processors: [writer, readers]
    selPc,        \* position of each get_processor_for_payment call in progress
    seen,         \* the fields that call has read of the processor it examines
    written       \* history: the records update_processor_health has inserted

vars == <<queue, hashes, zset, healthStore, processors, breaker, charged,
          steady, storeSteady, pc, msg, marked, processed, requested, accepted,
          nEnq, now, selected, summary, down, monPc, probed, pushed, popped,
          clearPc, clearKeys, clearResult, posted, rwlock, selPc, seen,
          written>>

monitorVars == <<monPc, probed>>
queueLog == <<pushed, popped>>
adminVars == <<clearPc, clearKeys, clearResult>>
routerVars == <<rwlock, selPc, seen, written>>

NoMsg == <<>>

\* positions of a get_processor_for_payment call outside its reads
Idle == [arm |-> "none", step |-> "idle"]
Returned == [arm |-> "none", step |-> "returned"]
EmptyMap == <<>>

\* ----------------------------------------------------------- environment
\* results a store call may have: any call may fail unless the store is steady
StoreOutcomes == IF storeSteady THEN {TRUE} ELSE BOOLEAN

\* ---------------------------------------------------------------- queue
\* Message::with(id, body)
MessageWith(id, body) == [id |-> id, body |-> body]

\* a push at the wrong end of the list (RPUSH)
Push_Right(q, m) == Append(q, m)

\* PaymentQueue::push: LPUSH inserts at the left end
Push(q, m) == <<m>> \o q

\* PaymentQueue::pop: BRPOP takes the right end
PopValue(q) == q[Len(q)]

\* a pop that reads the right end without removing it
PopRest_Peek(q) == q

PopRest(q) == SubSeq(q, 1, Len(q) - 1)

\* an entry that is not the JSON of a Message<Payment>
Malformed == [raw |-> "this is not a valid message"]

\* serde_json::from_str::<Message<Payment>>: succeeds on what push serialized
Decodes(entry) == "id" \in DOMAIN entry

\* what pop returns: Err when the store fails, Ok(None) when BRPOP times out on
\* an empty list, Err when the entry taken does not decode, Ok(Some(message))
\* otherwise
PopResult(q, storeOk) ==
    IF ~storeOk THEN "Err"
    ELSE IF Len(q) = 0 THEN "None"
    ELSE IF Decodes(PopValue(q)) THEN "Some" ELSE "Err"

\* a pop that removes the message although it returns Err
QueueAfterPop_Loses(q, storeOk) == IF Len(q) > 0 THEN PopRest(q) ELSE q

\* a pop that leaves an entry it cannot decode in the list
QueueAfterPop_KeepsMalformed(q, storeOk) ==
    IF PopResult(q, storeOk) = "Some" THEN PopRest(q) ELSE q

\* the list after pop: a successful BRPOP removes the element, whether or not
\* it decodes afterwards; a failed or timed out BRPOP removes nothing
QueueAfterPop(q, storeOk) == IF storeOk /\ Len(q) > 0 THEN PopRest(q) ELSE q

\* ---------------------------------------------------------------- ledger
\* format!("{:.2}", amount): nearest cent
Format2(amount) == (amount + 5) \div 10

MapPut(m, k, v) == [x \in (DOMAIN m) \cup {k} |-> IF x = k THEN v ELSE m[x]]

\* RedisPaymentRepository::save, the hash written by the atomic pipeline
SaveHashes(h, payment) ==
    MapPut(h, <<payment.processed_by, payment.correlation_id>>,
           [amount       |-> Format2(payment.amount),
            requested_at |-> payment.requested_at,
            processed_at |-> payment.processed_at,
            processed_by |-> payment.processed_by])

\* a save that forgets the time index
SaveZset_Skip(z, payment) == z

\* RedisPaymentRepository::save, the ZADD of the same pipeline
SaveZset(z, payment) == MapPut(z, payment.correlation_id, payment.requested_at)

\* RedisPaymentRepository::is_already_processed with the store answering
IsAlreadyProcessed(z, cid) == cid \in DOMAIN z

RECURSIVE SumAmounts(_, _, _)
SumAmounts(h, group, ids) ==
    IF ids = {} THEN 0
    ELSE LET id == CHOOSE x \in ids : TRUE
         IN h[<<group, id>>].amount + SumAmounts(h, group, ids \ {id})

\* the Lua script of calculate_payments_summary_using_lua: ZRANGEBYSCORE over
\* the index (both ends inclusive), then HGET amount of the group's hash
SummaryHits(h, z, group, from_ts, to_ts) ==
    LET ids == {id \in DOMAIN z : from_ts <= z[id] /\ z[id] <= to_ts}
    IN {id \in ids : <<group, id>> \in DOMAIN h}

CalculatePaymentsSummary(h, z, group, from_ts, to_ts) ==
    LET hits == SummaryHits(h, z, group, from_ts, to_ts)
    IN [total_requests |-> Cardinality(hits),
        total_amount   |-> SumAmounts(h, group, hits)]

\* ------------------------------------------------------- circuit breaker
\* window: outcomes of the most recent calls, TRUE = failure
ClosedBreaker == [state |-> "Closed", window |-> <<>>, elapsed |-> FALSE,
                   probing |-> FALSE]

Failures(window) == Cardinality({i \in DOMAIN window : window[i]})

\* the failure ratio over a full window exceeds 0.5
Tripped(window) == Len(window) >= BreakerWindow /\ 2 * Failures(window) > Len(window)

Roll(window, failed) ==
    LET w == Append(window, failed)
    IN IF Len(w) > BreakerWindow THEN Tail(w) ELSE w

\* a breaker that lets every call through while it is HalfOpen
BreakerAdmits_AllWhenHalfOpen(b) ==
    \/ b.state # "Open"
    \/ b.elapsed

\* does call_async run the operation, or short-circuit with BreakerError::Open
BreakerAdmits(b) ==
    \/ b.state = "Closed"
    \/ b.state = "Open" /\ b.elapsed
    \/ b.state = "HalfOpen" /\ ~b.probing

\* the breaker after admitting a call: an Open breaker whose cooldown is over
\* turns HalfOpen and the admitted call is its single probe
BreakerEnter(b) ==
    IF b.state = "Closed" THEN b
    ELSE [b EXCEPT !.state = "HalfOpen", !.probing = TRUE]

\* the breaker after the operation returned (failed = it returned Err): the
\* outcome enters the window, and the ratio is looked at when a failure is
\* counted, so that a call that succeeded never opens the breaker
BreakerRecord(b, failed) ==
    CASE b.state = "Closed" ->
            LET w == Roll(b.window, failed)
            IN IF failed /\ Tripped(w)
               THEN [state |-> "Open", window |-> <<>>, elapsed |-> FALSE,
                     probing |-> FALSE]
               ELSE [b EXCEPT !.window = w]
      [] b.state = "HalfOpen" ->
            IF failed
            THEN [state |-> "Open", window |-> <<>>, elapsed |-> FALSE,
                  probing |-> FALSE]
            ELSE ClosedBreaker
      [] OTHER -> b

\* ---------------------------------------------------- external processors
\* A processor answers 2xx at most once per correlation id: a repeated id is
\* refused (4xx) or fails like any other call. In a good period a processor
\* answers 2xx, and 4xx to a repeated id. A processor that is down answers
\* 500 to every payment call.
Responses(p, cid) ==
    IF p \in down THEN {"5xx"}
    ELSE IF steady[p]
    THEN (IF cid \in charged[p] THEN {"4xx"} ELSE {"2xx"})
    ELSE (IF cid \in charged[p] THEN {"4xx", "5xx", "neterr"}
          ELSE {"2xx", "4xx", "5xx", "neterr"})

\* answers to GET /payments/service-health
HealthResponses(p) ==
    IF steady[p] THEN {"2xx"} ELSE {"2xx", "non2xx", "neterr"}

\* ----------------------------------------------------------- health data
\* RedisPaymentProcessorRepository::save: Healthy is stored as failing = 0,
\* Failing and Slow as failing = 1
FailingStatus(health) == IF health = "Healthy" THEN 0 ELSE 1

\* RedisPaymentProcessorRepository::get_health_of: 1 unless the hash holds a
\* parseable flag and the store answers
GetHealthOf(store, name, storeOk) ==
    IF storeOk /\ name \in DOMAIN store THEN store[name].failing ELSE 1

\* is_backend_failing_or_slow
IsBackendFailingOrSlow(store, name, storeOk) == GetHealthOf(store, name, storeOk) # 0

\* HealthStatus::is_healthy
IsHealthy(health) == health = "Healthy"

\* ------------------------------------------------------------------ init
\* everything but the two health records and the state of the store
InitIdle ==
    /\ queue = <<>>
    /\ hashes = EmptyMap
    /\ zset = EmptyMap
    /\ breaker = [p \in Groups |-> ClosedBreaker]
    /\ charged = [p \in Groups |-> {}]
    /\ steady = [p \in Groups |-> FALSE]
    /\ pc = [w \in Workers |-> "pop"]
    /\ msg = [w \in Workers |-> NoMsg]
    /\ marked = [w \in Workers |-> FALSE]
    /\ processed = [w \in Workers |-> FALSE]
    /\ requested = [w \in Workers |-> 0]
    /\ accepted = {}
    /\ nEnq = 0
    /\ now = 0
    /\ selected = "None"
    /\ summary = [total_requests |-> 0, total_amount |-> 0]
    /\ monPc = "probe_default"
    /\ probed = NoMsg
    /\ pushed = <<>>
    /\ popped = <<>>
    /\ clearPc = "idle"
    /\ clearKeys = {}
    /\ clearResult = "none"
    /\ posted = NoMsg
    /\ rwlock = [writer |-> FALSE, readers |-> {}]
    /\ selPc = [s \in Selectors |-> Idle]
    /\ seen = [s \in Selectors |-> NoMsg]
    /\ written = {}

Init ==
    /\ down = {}
    /\ storeSteady = FALSE
    /\ healthStore = EmptyMap
    /\ processors = EmptyMap
    /\ InitIdle

\* --------------------------------------------------------------- ingress
\* CreatePaymentUseCase::execute behind POST /payments: 200 iff the push
\* succeeded
CreatePayment(cid) ==
    /\ nEnq < MaxEnqueues
    /\ nEnq' = nEnq + 1
    /\ \E storeOk \in StoreOutcomes :
          IF storeOk
          THEN /\ queue' = Push(queue, MessageWith(cid,
                              [correlation_id |-> cid, amount |-> AmountOf(cid)]))
               /\ accepted' = accepted \cup {cid}
          ELSE UNCHANGED <<queue, accepted>>
    /\ UNCHANGED <<hashes, zset, healthStore, processors, breaker, charged,
                   pc, msg, processed, requested, now, selected, summary,
                   marked, steady, storeSteady,
                   down, monitorVars, queueLog, adminVars, posted, routerVars>>

\* the status of the response to POST /payments: 200 whatever the push did
PaymentsStatus_AlwaysOk(pushOk) == 200

\* the status of the response to POST /payments: HttpResponse::Ok() when the
\* use case returned Ok, ApiError::InternalServerError otherwise
PaymentsStatus(pushOk) == IF pushOk THEN 200 ELSE 500

\* the handler `payments` seen from the client: the use case pushes
\* Message::with(correlation_id, payment) and the handler answers
PostPayments(cid) ==
    /\ \E storeOk \in StoreOutcomes :
          LET m == MessageWith(cid, [correlation_id |-> cid, amount |-> AmountOf(cid)])
          IN /\ (storeOk => Len(pushed) < MaxPushes)
             /\ posted' = [cid |-> cid, reachable |-> storeOk,
                           status |-> PaymentsStatus(storeOk)]
             /\ IF storeOk
                THEN /\ queue' = Push(queue, m)
                     /\ pushed' = Append(pushed, m)
                     /\ accepted' = accepted \cup {cid}
                ELSE UNCHANGED <<queue, pushed, accepted>>
    /\ UNCHANGED <<hashes, zset, healthStore, processors, breaker, charged,
                   pc, msg, processed, requested, nEnq, now, selected, summary,
                   marked, steady, storeSteady,
                   down, monitorVars, popped, adminVars, routerVars>>

\* ---------------------------------------------------------------- worker
CallPc(g) == IF g = "default" THEN "call_default" ELSE "call_fallback"
WaitPc(g) == IF g = "default" THEN "wait_default" ELSE "wait_fallback"

\* where the loop goes after the attempt on g returned `done`: after default
\* it reads the fallback's health; after fallback it re-queues unless done
AfterAttempt(g, done) ==
    IF g = "default" THEN "health_fallback"
    ELSE IF done THEN "pop" ELSE "requeue"

\* queue.pop() at the top of the loop; on Ok(None) and on Err the worker
\* goes to sleep for 1 s
WorkerPop(w) ==
    /\ pc[w] = "pop"
    /\ \E storeOk \in StoreOutcomes :
          /\ queue' = QueueAfterPop(queue, storeOk)
          /\ IF PopResult(queue, storeOk) = "Some"
             THEN /\ msg' = [msg EXCEPT ![w] = PopValue(queue)]
                  /\ marked' = [marked EXCEPT ![w] =
                         IsAlreadyProcessed(zset, PopValue(queue).body.correlation_id)]
                  /\ pc' = [pc EXCEPT ![w] = "check"]
             ELSE /\ pc' = [pc EXCEPT ![w] = "backoff"]
                  /\ UNCHANGED <<msg, marked>>
    /\ UNCHANGED <<hashes, zset, healthStore, processors, breaker, charged,
                   processed, requested, accepted, nEnq, now, selected,
                   summary, steady, storeSteady,
                   down, monitorVars, queueLog, adminVars, posted, routerVars>>

\* `sleep(Duration::from_secs(1)).await; continue;` after a pop that gave
\* nothing
WorkerBackoff(w) ==
    /\ pc[w] = "backoff"
    /\ pc' = [pc EXCEPT ![w] = "pop"]
    /\ UNCHANGED <<queue, hashes, zset, healthStore, processors, breaker,
                   charged, msg, marked, processed, requested, accepted, nEnq,
                   now, selected, summary, steady, storeSteady,
                   down, monitorVars, queueLog, adminVars, posted, routerVars>>

\* `if let Ok(true) = is_already_processed(..)`: only Ok(true) skips; a store
\* error gives Err or Ok(false) and the iteration goes on
AlreadyProcessedSkips(z, cid, storeOk) == storeOk /\ IsAlreadyProcessed(z, cid)

WorkerCheck(w) ==
    /\ pc[w] = "check"
    /\ \E storeOk \in StoreOutcomes :
          IF AlreadyProcessedSkips(zset, msg[w].body.correlation_id, storeOk)
          THEN /\ pc' = [pc EXCEPT ![w] = "pop"]
               /\ msg' = [msg EXCEPT ![w] = NoMsg]
          ELSE /\ pc' = [pc EXCEPT ![w] = "health_default"]
               /\ UNCHANGED msg
    /\ processed' = [processed EXCEPT ![w] = FALSE]
    /\ marked' = [marked EXCEPT ![w] = IF pc'[w] = "pop" THEN FALSE ELSE @]
    /\ UNCHANGED <<queue, hashes, zset, healthStore, processors, breaker,
                   charged, requested, accepted, nEnq, now, selected,
                   summary, steady, storeSteady,
                   down, monitorVars, queueLog, adminVars, posted, routerVars>>

\* default_failing = is_backend_failing_or_slow("default"), then the branch
WorkerHealthDefault(w) ==
    /\ pc[w] = "health_default"
    /\ \E storeOk \in StoreOutcomes :
          pc' = [pc EXCEPT ![w] =
                    IF IsBackendFailingOrSlow(healthStore, "default", storeOk)
                    THEN "health_fallback" ELSE "call_default"]
    /\ UNCHANGED <<queue, hashes, zset, healthStore, processors, breaker,
                   charged, msg, processed, requested, accepted, nEnq, now,
                   selected, summary, marked, steady, storeSteady,
                   down, monitorVars, queueLog, adminVars, posted, routerVars>>

\* fallback_failing = is_backend_failing_or_slow("fallback"), then
\* `if !processed && !fallback_failing` and, past it, `if !processed`
WorkerHealthFallback(w) ==
    /\ pc[w] = "health_fallback"
    /\ \E storeOk \in StoreOutcomes :
          LET failing == IsBackendFailingOrSlow(healthStore, "fallback", storeOk)
          IN IF ~processed[w] /\ ~failing
             THEN /\ pc' = [pc EXCEPT ![w] = "call_fallback"]
                  /\ UNCHANGED msg
             ELSE IF processed[w]
             THEN /\ pc' = [pc EXCEPT ![w] = "pop"]
                  /\ msg' = [msg EXCEPT ![w] = NoMsg]
             ELSE /\ pc' = [pc EXCEPT ![w] = "requeue"]
                  /\ UNCHANGED msg
    /\ processed' = [processed EXCEPT ![w] = IF pc'[w] = "pop" THEN FALSE ELSE @]
    /\ marked' = [marked EXCEPT ![w] = IF pc'[w] = "pop" THEN FALSE ELSE @]
    /\ UNCHANGED <<queue, hashes, zset, healthStore, processors, breaker,
                   charged, requested, accepted, nEnq, now, selected,
                   summary, steady, storeSteady,
                   down, monitorVars, queueLog, adminVars, posted, routerVars>>

\* ------------------------------------------- ProcessPaymentUseCase::execute
\* the POST is the operation handed to circuit_breaker.call_async: it is made
\* only when the breaker admits the call
ExecuteAdmitted(b) == BreakerAdmits(b)

\* a closure that returns Err only when the request could not be sent
OperationFailed_OnlySendErrors(resp) == resp = "neterr"

\* a closure that also returns Err for a 4xx
OperationFailed_Non2xx(resp) == resp # "2xx"

\* the closure's result: Err for a failed send and for a 5xx, Ok(true) for a
\* 2xx, Ok(false) for a 4xx
OperationFailed(resp) == resp \in {"5xx", "neterr"}

\* an execute that takes a 4xx for a processed payment
ExecuteOutcome_RejectedIsProcessed(resp, saveOk) ==
    IF resp \in {"2xx", "4xx"} THEN (IF saveOk THEN "Ok(true)" ELSE "Err")
    ELSE "Err"

\* what execute returns once the operation ran: Ok(true) after a 2xx and a
\* successful save, Err when the save or the operation failed, Ok(false) on 4xx
ExecuteOutcome(resp, saveOk) ==
    IF resp = "2xx" THEN (IF saveOk THEN "Ok(true)" ELSE "Err")
    ELSE IF resp = "4xx" THEN "Ok(false)"
    ELSE "Err"

\* a wrong reading of the BreakerError::Open arm, which C6 must tell apart
OpenOutcome_Processed == "Ok(true)"

\* what execute returns when the breaker short-circuits: BreakerError::Open
OpenOutcome == "Ok(false)"

\* an execute that saves after a 4xx too
SaveAttempted_AlsoRejected(resp) == resp \in {"2xx", "4xx"}

\* the Ok(true) arm of the match, the only one that calls save: the closure
\* returned Ok(true), which it does for a 2xx and for nothing else
SaveAttempted(resp) == resp = "2xx"

\* the worker's `.unwrap_or(false)`
UnwrapOrFalse(outcome) == outcome = "Ok(true)"

\* the payment execute hands to save
ProcessedPayment(body, requested_at, processed_at, group) ==
    [correlation_id |-> body.correlation_id,
     amount         |-> body.amount,
     requested_at   |-> requested_at,
     processed_at   |-> processed_at,
     processed_by   |-> group]

\* execute up to the point where the POST is in flight (or short-circuited)
ExecuteStart(w, g) ==
    /\ pc[w] = CallPc(g)
    /\ requested' = [requested EXCEPT ![w] = now]
    /\ IF ExecuteAdmitted(breaker[g])
       THEN /\ breaker' = [breaker EXCEPT ![g] = BreakerEnter(breaker[g])]
            /\ pc' = [pc EXCEPT ![w] = WaitPc(g)]
            /\ UNCHANGED processed
       ELSE /\ processed' = [processed EXCEPT ![w] = UnwrapOrFalse(OpenOutcome)]
            /\ pc' = [pc EXCEPT ![w] =
                         AfterAttempt(g, UnwrapOrFalse(OpenOutcome))]
            /\ UNCHANGED breaker
    /\ UNCHANGED <<queue, hashes, zset, healthStore, processors, charged,
                   msg, accepted, nEnq, now, selected, summary, marked,
                   steady, storeSteady,
                   down, monitorVars, queueLog, adminVars, posted, routerVars>>

\* the processor's answer arrives: the breaker records it, a 2xx is saved
ExecuteFinish(w, g) ==
    /\ pc[w] = WaitPc(g)
    /\ \E resp \in Responses(g, msg[w].body.correlation_id), saveOk \in StoreOutcomes :
          LET outcome == ExecuteOutcome(resp, saveOk)
              done    == UnwrapOrFalse(outcome)
              payment == ProcessedPayment(msg[w].body, requested[w], now, g)
              next    == AfterAttempt(g, done)
          IN /\ charged' = IF resp = "2xx"
                           THEN [charged EXCEPT ![g] = @ \cup {payment.correlation_id}]
                           ELSE charged
             /\ breaker' = [breaker EXCEPT ![g] =
                               BreakerRecord(breaker[g], OperationFailed(resp))]
             /\ IF SaveAttempted(resp) /\ saveOk
                THEN /\ hashes' = SaveHashes(hashes, payment)
                     /\ zset' = SaveZset(zset, payment)
                ELSE UNCHANGED <<hashes, zset>>
             /\ processed' = [processed EXCEPT ![w] = done /\ next # "pop"]
             /\ pc' = [pc EXCEPT ![w] = next]
             /\ msg' = [msg EXCEPT ![w] = IF next = "pop" THEN NoMsg ELSE @]
    /\ marked' = [marked EXCEPT ![w] = IF pc'[w] = "pop" THEN FALSE ELSE @]
    /\ UNCHANGED <<queue, healthStore, processors, requested, accepted, nEnq,
                   now, selected, summary, steady, storeSteady,
                   down, monitorVars, queueLog, adminVars, posted, routerVars>>

\* `if !processed { queue.push(message) }`: a failed push is only logged
WorkerRequeue(w) ==
    /\ pc[w] = "requeue"
    /\ \E storeOk \in StoreOutcomes :
          queue' = IF storeOk THEN Push(queue, msg[w]) ELSE queue
    /\ pc' = [pc EXCEPT ![w] = "pop"]
    /\ msg' = [msg EXCEPT ![w] = NoMsg]
    /\ marked' = [marked EXCEPT ![w] = IF pc'[w] = "pop" THEN FALSE ELSE @]
    /\ UNCHANGED <<hashes, zset, healthStore, processors, breaker, charged,
                   processed, requested, accepted, nEnq, now, selected,
                   summary, steady, storeSteady,
                   down, monitorVars, queueLog, adminVars, posted, routerVars>>

\* one step of payment_processing_worker
WorkerStep(w) ==
    \/ WorkerPop(w)
    \/ WorkerBackoff(w)
    \/ WorkerCheck(w)
    \/ WorkerHealthDefault(w)
    \/ ExecuteStart(w, "default")
    \/ ExecuteFinish(w, "default")
    \/ WorkerHealthFallback(w)
    \/ ExecuteStart(w, "fallback")
    \/ ExecuteFinish(w, "fallback")
    \/ WorkerRequeue(w)

\* ---------------------------------------------------------------- probes
\* HealthCheckUseCase::execute: any 2xx is Healthy, anything else Failing;
\* min_response_time is always written as 100
HealthCheck(p) ==
    /\ \E resp \in HealthResponses(p), storeOk \in StoreOutcomes :
          LET health == IF resp = "2xx" THEN "Healthy" ELSE "Failing"
          IN healthStore' =
                IF storeOk
                THEN MapPut(healthStore, p,
                            [failing |-> FailingStatus(health),
                             min_response_time |-> 100])
                ELSE healthStore
    /\ UNCHANGED <<queue, hashes, zset, processors, breaker, charged, pc,
                   msg, processed, requested, accepted, nEnq, now, selected,
                   summary, marked, steady, storeSteady,
                   down, monitorVars, queueLog, adminVars, posted, routerVars>>

\* the cooldown of an Open breaker runs out
CooldownElapses(p) ==
    /\ breaker[p].state = "Open"
    /\ ~breaker[p].elapsed
    /\ breaker' = [breaker EXCEPT ![p].elapsed = TRUE]
    /\ UNCHANGED <<queue, hashes, zset, healthStore, processors, charged, pc,
                   msg, processed, requested, accepted, nEnq, now, selected,
                   summary, marked, steady, storeSteady,
                   down, monitorVars, queueLog, adminVars, posted, routerVars>>

Next ==
    \/ \E cid \in Ids : CreatePayment(cid)
    \/ \E w \in Workers : WorkerStep(w)
    \/ \E p \in Groups : HealthCheck(p)
    \/ \E p \in Groups : CooldownElapses(p)

Spec == Init /\ [][Next]_vars

\* ---------------------------------------------------------------- router
\* health values and response times a processor record may carry
HealthStatuses == {"Healthy", "Failing", "Slow"}
ResponseTimes == {0, 99, 100, 101}

\* a wrong reading of the arm that lets 100 ms through, which C9 must tell apart
Selectable_Le100(procs, br, name) ==
    /\ name \in DOMAIN procs
    /\ IsHealthy(procs[name].health)
    /\ procs[name].min_response_time <= 100
    /\ br[name].state # "Open"

\* one arm of get_processor_for_payment: the processor is in the map, is
\* healthy, its min_response_time is below 100 and its breaker is not Open
Selectable(procs, br, name) ==
    /\ name \in DOMAIN procs
    /\ IsHealthy(procs[name].health)
    /\ procs[name].min_response_time < 100
    /\ br[name].state # "Open"

\* InMemoryPaymentRouter::get_processor_for_payment: the name of the processor
\* it returns (with that processor's url and breaker), or "None"
GetProcessorForPayment(procs, br) ==
    IF Selectable(procs, br, "default") THEN "default"
    ELSE IF Selectable(procs, br, "fallback") THEN "fallback"
    ELSE "None"

\* InMemoryPaymentRouter::update_processor_health: insert under the name
UpdateProcessorHealth(name, health, min_response_time) ==
    /\ processors' = MapPut(processors, name,
                            [name |-> name, health |-> health,
                             min_response_time |-> min_response_time])
    /\ UNCHANGED <<queue, hashes, zset, healthStore, breaker, charged, pc,
                   msg, marked, processed, requested, accepted, nEnq, now,
                   selected, summary, steady, storeSteady,
                   down, monitorVars, queueLog, adminVars, posted, routerVars>>

\* a caller asks the router for a processor
RouterSelect ==
    /\ selected' = GetProcessorForPayment(processors, breaker)
    /\ UNCHANGED <<queue, hashes, zset, healthStore, processors, breaker,
                   charged, pc, msg, marked, processed, requested, accepted,
                   nEnq, now, summary, steady, storeSteady,
                   down, monitorVars, queueLog, adminVars, posted, routerVars>>

\* a call through processor p's breaker is admitted
BreakerCallStart(p) ==
    /\ BreakerAdmits(breaker[p])
    /\ breaker[p].state # "Closed"
    /\ breaker' = [breaker EXCEPT ![p] = BreakerEnter(breaker[p])]
    /\ UNCHANGED <<queue, hashes, zset, healthStore, processors, charged, pc,
                   msg, marked, processed, requested, accepted, nEnq, now,
                   selected, summary, steady, storeSteady,
                   down, monitorVars, queueLog, adminVars, posted, routerVars>>

\* a call through processor p's breaker returns
BreakerCallEnd(p, failed) ==
    /\ breaker[p].state = "Closed" \/ breaker[p].probing
    /\ breaker' = [breaker EXCEPT ![p] = BreakerRecord(breaker[p], failed)]
    /\ UNCHANGED <<queue, hashes, zset, healthStore, processors, charged, pc,
                   msg, marked, processed, requested, accepted, nEnq, now,
                   selected, summary, steady, storeSteady,
                   down, monitorVars, queueLog, adminVars, posted, routerVars>>

NextRouter ==
    \/ \E name \in Groups, health \in HealthStatuses, t \in ResponseTimes :
          UpdateProcessorHealth(name, health, t)
    \/ RouterSelect
    \/ \E p \in Groups : BreakerCallStart(p)
    \/ \E p \in Groups, failed \in BOOLEAN : BreakerCallEnd(p, failed)
    \/ \E p \in Groups : CooldownElapses(p)

SpecRouter == Init /\ [][NextRouter]_vars

\* ------------------------------------------- router under its RwLock
\* everything but the router's map, its lock and the calls on it
outsideRouter == <<queue, hashes, zset, healthStore, breaker, charged, steady,
                   storeSteady, pc, msg, marked, processed, requested,
                   accepted, nEnq, now, summary, down, monitorVars, queueLog,
                   adminVars, posted>>

\* the (url, health, min_response_time) values the updates carry
ProbeReadings == {<<"http://default.com", "Healthy", 0>>,
                  <<"http://test.com", "Healthy", 99>>,
                  <<"http://default.com", "Failing", 0>>}

\* the PaymentProcessor values handed to update_processor_health
RouterUpdates ==
    {[name |-> n, url |-> r[1], health |-> r[2], min_response_time |-> r[3]] :
        n \in Groups, r \in ProbeReadings}

\* a write lock that does not wait for the readers to leave
WriteLockFree_IgnoresReaders(l) == ~l.writer

\* RwLock::write is granted when nobody holds the lock
WriteLockFree(l) == ~l.writer /\ l.readers = {}

\* RwLock::read is granted when no writer holds the lock
ReadLockFree(l) == ~l.writer

\* InMemoryPaymentRouter::update_processor_health: take the write lock, insert
\* the whole PaymentProcessor under its name, drop the lock
LockedUpdate(processor) ==
    /\ WriteLockFree(rwlock)
    /\ processors' = MapPut(processors, processor.name, processor)
    /\ written' = written \cup {processor}
    /\ UNCHANGED <<outsideRouter, selected, rwlock, selPc, seen>>

\* get_processor_for_payment: take the read lock
SelectLock(s) ==
    /\ selPc[s].step \in {"idle", "returned"}
    /\ ReadLockFree(rwlock)
    /\ rwlock' = [rwlock EXCEPT !.readers = @ \cup {s}]
    /\ selPc' = [selPc EXCEPT ![s] = [arm |-> "default", step |-> "health"]]
    /\ seen' = [seen EXCEPT ![s] = NoMsg]
    /\ UNCHANGED <<outsideRouter, processors, selected, written>>

\* the arm of `name` did not match: go on to fallback, or return None and drop
\* the read lock
SelectNextArm(s, name) ==
    /\ seen' = [seen EXCEPT ![s] = NoMsg]
    /\ IF name = "default"
       THEN /\ selPc' = [selPc EXCEPT ![s] =
                            [arm |-> "fallback", step |-> "health"]]
            /\ UNCHANGED <<rwlock, selected>>
       ELSE /\ selPc' = [selPc EXCEPT ![s] = Returned]
            /\ rwlock' = [rwlock EXCEPT !.readers = @ \ {s}]
            /\ selected' = "None"

\* processors.get(name) and health.is_healthy()
SelectReadHealth(s) ==
    /\ selPc[s].step = "health"
    /\ LET name == selPc[s].arm
       IN  IF name \in DOMAIN processors /\ IsHealthy(processors[name].health)
           THEN /\ seen' = [seen EXCEPT ![s] =
                               [name |-> name,
                                health |-> processors[name].health]]
                /\ selPc' = [selPc EXCEPT ![s].step = "time"]
                /\ UNCHANGED <<rwlock, selected>>
           ELSE SelectNextArm(s, name)
    /\ UNCHANGED <<outsideRouter, processors, written>>

\* min_response_time < 100 and the breaker's current_state()
SelectReadTime(s) ==
    /\ selPc[s].step = "time"
    /\ LET name == selPc[s].arm
       IN  IF /\ processors[name].min_response_time < 100
              /\ breaker[name].state # "Open"
           THEN /\ seen' = [seen EXCEPT ![s] =
                               [name |-> name,
                                health |-> seen[s].health,
                                min_response_time |->
                                    processors[name].min_response_time]]
                /\ selPc' = [selPc EXCEPT ![s].step = "url"]
                /\ UNCHANGED <<rwlock, selected>>
           ELSE SelectNextArm(s, name)
    /\ UNCHANGED <<outsideRouter, processors, written>>

\* url.clone(): return Some((url, name, breaker)) and drop the read lock
SelectReadUrl(s) ==
    /\ selPc[s].step = "url"
    /\ LET name == selPc[s].arm
       IN  /\ seen' = [seen EXCEPT ![s] =
                          [name |-> name,
                           url |-> processors[name].url,
                           health |-> seen[s].health,
                           min_response_time |-> seen[s].min_response_time]]
           /\ selected' = name
    /\ selPc' = [selPc EXCEPT ![s] = Returned]
    /\ rwlock' = [rwlock EXCEPT !.readers = @ \ {s}]
    /\ UNCHANGED <<outsideRouter, processors, written>>

LockedSelect(s) ==
    \/ SelectLock(s)
    \/ SelectReadHealth(s)
    \/ SelectReadTime(s)
    \/ SelectReadUrl(s)

NextRouterLock ==
    \/ \E processor \in RouterUpdates : LockedUpdate(processor)
    \/ \E s \in Selectors : LockedSelect(s)

SpecRouterLock == Init /\ [][NextRouterLock]_vars

\* ------------------------------------------------------ ledger operations
\* the commands of save's pipeline, in order: the HSETs of the record, then
\* the ZADD of the index
SaveCommands == <<"hset", "zadd">>

\* a pipeline sent without MULTI/EXEC: it can be cut after any command
PipelineStops_Any(n) == 0 .. n

\* redis::pipe().atomic(): how many of the n commands of the pipeline can have
\* taken effect when a reader looks or the call is cut short: none or all
PipelineStops(n) == {0, n}

\* PaymentRepository::save called with a processed payment; a call that fails
\* or is cut short applies the commands the pipeline lets through
RepoSave(cid, g, t) ==
    /\ \E storeOk \in StoreOutcomes :
       \E k \in IF storeOk THEN {Len(SaveCommands)}
                ELSE PipelineStops(Len(SaveCommands)) \ {Len(SaveCommands)} :
          LET payment == ProcessedPayment(
                            [correlation_id |-> cid, amount |-> AmountOf(cid)],
                            t, t, g)
          IN /\ hashes' = IF k >= 1 THEN SaveHashes(hashes, payment) ELSE hashes
             /\ zset' = IF k >= 2 THEN SaveZset(zset, payment) ELSE zset
    /\ UNCHANGED <<queue, healthStore, processors, breaker, charged, pc, msg,
                   marked, processed, requested, accepted, nEnq, now,
                   selected, summary, steady, storeSteady,
                   down, monitorVars, queueLog, adminVars, posted, routerVars>>

\* PaymentRepository::get_summary_by_group
GetSummaryByGroup(g, from_ts, to_ts) ==
    /\ \E storeOk \in StoreOutcomes :
          summary' = IF storeOk
                     THEN CalculatePaymentsSummary(hashes, zset, g, from_ts, to_ts)
                     ELSE summary
    /\ UNCHANGED <<queue, hashes, zset, healthStore, processors, breaker,
                   charged, pc, msg, marked, processed, requested, accepted,
                   nEnq, now, selected, steady, storeSteady,
                   down, monitorVars, queueLog, adminVars, posted, routerVars>>

NextLedger ==
    \/ \E cid \in Ids, g \in Groups, t \in Times : RepoSave(cid, g, t)
    \/ \E g \in Groups, a \in Times, b \in Times : GetSummaryByGroup(g, a, b)

SpecLedger == Init /\ [][NextLedger]_vars

\* ---------------------------------------------------- the summary use case
\* time::Duration::days(30), in units of the model's clock
ThirtyDays == 1

\* an Option<timestamp>: {} is None, {t} is Some(t)
OptionalTimes == {{}} \cup {{t} : t \in Times}
UnwrapOr(opt, dflt) == IF opt = {} THEN dflt ELSE CHOOSE t \in opt : TRUE

\* query.from.unwrap_or(now_utc() - 30 days)
DefaultFrom(t) == t - ThirtyDays

\* query.to.unwrap_or(now_utc() + 30 days)
DefaultTo(t) == t + ThirtyDays

\* GetPaymentSummaryUseCase::execute: the bounds, then one
\* get_summary_by_group per group; `?` returns the first store error
GetPaymentSummary(qfrom, qto) ==
    /\ \E okDefault \in StoreOutcomes, okFallback \in StoreOutcomes :
          LET from == UnwrapOr(qfrom, DefaultFrom(now))
              to   == UnwrapOr(qto, DefaultTo(now))
          IN summary' =
                IF okDefault /\ okFallback
                THEN [query_from |-> qfrom, query_to |-> qto,
                      from |-> from, to |-> to,
                      default  |-> CalculatePaymentsSummary(hashes, zset, "default", from, to),
                      fallback |-> CalculatePaymentsSummary(hashes, zset, "fallback", from, to)]
                ELSE summary
    /\ UNCHANGED <<queue, hashes, zset, healthStore, processors, breaker,
                   charged, pc, msg, marked, processed, requested, accepted,
                   nEnq, now, selected, steady, storeSteady,
                   down, monitorVars, queueLog, adminVars, posted, routerVars>>

\* the wall clock moves on
Tick ==
    /\ now < MaxTime
    /\ now' = now + 1
    /\ UNCHANGED <<queue, hashes, zset, healthStore, processors, breaker,
                   charged, pc, msg, marked, processed, requested, accepted,
                   nEnq, selected, summary, steady, storeSteady,
                   down, monitorVars, queueLog, adminVars, posted, routerVars>>

NextSummary ==
    \/ \E cid \in Ids, g \in Groups, t \in Times : RepoSave(cid, g, t)
    \/ \E qfrom \in OptionalTimes, qto \in OptionalTimes : GetPaymentSummary(qfrom, qto)
    \/ Tick

SpecSummary == Init /\ [][NextSummary]_vars

\* ------------------------------------------------------------ the purge
\* DEL of a list of keys
DelKeys(h, keys) == [k \in (DOMAIN h) \ keys |-> h[k]]

\* a DEL that leaves the sorted set in place
DelSet_Keeps(z) == z

\* DEL processed_payments
DelSet(z) == EmptyMap

\* DEL with no key at all is refused by the store (wrong number of arguments)
DelAccepted(keys, storeOk) == storeOk /\ keys # {}

\* clear(), first call: the connection and KEYS payment_summary:*
ClearListKeys ==
    /\ clearPc = "idle"
    /\ \E storeOk \in StoreOutcomes :
          IF storeOk
          THEN /\ clearKeys' = DOMAIN hashes
               /\ clearPc' = "del_keys"
               /\ UNCHANGED clearResult
          ELSE /\ clearResult' = "Err"
               /\ UNCHANGED <<clearPc, clearKeys, posted>>
    /\ UNCHANGED <<queue, hashes, zset, healthStore, processors, breaker,
                   charged, steady, storeSteady, pc, msg, marked, processed,
                   requested, accepted, nEnq, now, selected, summary, down,
                   monitorVars, queueLog, posted, routerVars>>

\* clear(), second call: DEL of the keys listed; an error returns at once
ClearDelKeys ==
    /\ clearPc = "del_keys"
    /\ \E storeOk \in StoreOutcomes :
          IF DelAccepted(clearKeys, storeOk)
          THEN /\ hashes' = DelKeys(hashes, clearKeys)
               /\ clearPc' = "del_set"
               /\ UNCHANGED clearResult
          ELSE /\ clearResult' = "Err"
               /\ clearPc' = "idle"
               /\ UNCHANGED hashes
    /\ UNCHANGED <<queue, zset, healthStore, processors, breaker,
                   charged, steady, storeSteady, pc, msg, marked, processed,
                   requested, accepted, nEnq, now, selected, summary, down,
                   monitorVars, queueLog, clearKeys, posted, routerVars>>

\* clear(), third call: DEL of the time index, then Ok(())
ClearDelSet ==
    /\ clearPc = "del_set"
    /\ \E storeOk \in StoreOutcomes :
          IF storeOk
          THEN /\ zset' = DelSet(zset)
               /\ clearResult' = "Ok"
          ELSE /\ clearResult' = "Err"
               /\ UNCHANGED zset
    /\ clearPc' = "idle"
    /\ UNCHANGED <<queue, hashes, healthStore, processors, breaker,
                   charged, steady, storeSteady, pc, msg, marked, processed,
                   requested, accepted, nEnq, now, selected, summary, down,
                   monitorVars, queueLog, clearKeys, posted, routerVars>>

Clear ==
    \/ ClearListKeys
    \/ ClearDelKeys
    \/ ClearDelSet

NextPurge ==
    \/ \E cid \in Ids, g \in Groups, t \in Times : RepoSave(cid, g, t)
    \/ Clear

SpecPurge == Init /\ [][NextPurge]_vars

\* ------------------------------------------- a quiet spell between probes
\* Both probes have reported both processors healthy (the health check wrote
\* failing = 0, the monitor wrote Healthy with a response time of 0 ms), and no
\* probe runs while the workers work.  The store is available throughout.
InitPreference ==
    /\ down = {}
    /\ storeSteady = TRUE
    /\ healthStore = [p \in Groups |->
                         [failing |-> FailingStatus("Healthy"),
                          min_response_time |-> 100]]
    /\ processors = [p \in Groups |->
                        [name |-> p, health |-> "Healthy", min_response_time |-> 0]]
    /\ InitIdle

NextPreference ==
    \/ \E cid \in Ids : CreatePayment(cid)
    \/ \E w \in Workers : WorkerStep(w)

SpecPreference == InitPreference /\ [][NextPreference]_vars

\* ------------------------------------------------ one worker, run fairly
\* a processor enters a good period and stays in it
ProcessorSettles(p) ==
    /\ ~steady[p]
    /\ steady' = [steady EXCEPT ![p] = TRUE]
    /\ UNCHANGED <<queue, hashes, zset, healthStore, processors, breaker,
                   charged, storeSteady, pc, msg, marked, processed, requested,
                   accepted, nEnq, now, selected, summary,
                   down, monitorVars, queueLog, adminVars, posted, routerVars>>

\* the store stops failing
StoreSettles ==
    /\ ~storeSteady
    /\ storeSteady' = TRUE
    /\ UNCHANGED <<queue, hashes, zset, healthStore, processors, breaker,
                   charged, steady, pc, msg, marked, processed, requested,
                   accepted, nEnq, now, selected, summary,
                   down, monitorVars, queueLog, adminVars, posted, routerVars>>

NextFair ==
    \/ CreatePayment(1)
    \/ WorkerStep(1)
    \/ \E p \in Groups : HealthCheck(p)
    \/ \E p \in Groups : CooldownElapses(p)
    \/ \E p \in Groups : ProcessorSettles(p)
    \/ StoreSettles

\* the executor keeps running the worker and the probe, and time passes
Fairness ==
    /\ WF_vars(WorkerStep(1))
    /\ \A p \in Groups : WF_vars(HealthCheck(p))
    /\ \A p \in Groups : WF_vars(CooldownElapses(p))

FairSpec == Init /\ [][NextFair]_vars /\ Fairness

\* ------------------------------------- default down, fallback in good order
\* The default processor answers 500 to every payment call and the fallback is
\* in a good period; both health flags say healthy (nothing probes them); one
\* payment is enqueued.
InitDefaultDown ==
    /\ down = {"default"}
    /\ storeSteady = FALSE
    /\ healthStore = [p \in Groups |->
                         [failing |-> FailingStatus("Healthy"),
                          min_response_time |-> 100]]
    /\ processors = EmptyMap
    /\ queue = <<>>
    /\ hashes = EmptyMap
    /\ zset = EmptyMap
    /\ breaker = [p \in Groups |-> ClosedBreaker]
    /\ charged = [p \in Groups |-> {}]
    /\ steady = [p \in Groups |-> p = "fallback"]
    /\ pc = [w \in Workers |-> "pop"]
    /\ msg = [w \in Workers |-> NoMsg]
    /\ marked = [w \in Workers |-> FALSE]
    /\ processed = [w \in Workers |-> FALSE]
    /\ requested = [w \in Workers |-> 0]
    /\ accepted = {}
    /\ nEnq = 0
    /\ now = 0
    /\ selected = "None"
    /\ summary = [total_requests |-> 0, total_amount |-> 0]
    /\ monPc = "probe_default"
    /\ probed = NoMsg
    /\ pushed = <<>>
    /\ popped = <<>>
    /\ clearPc = "idle"
    /\ clearKeys = {}
    /\ clearResult = "none"
    /\ posted = NoMsg
    /\ rwlock = [writer |-> FALSE, readers |-> {}]
    /\ selPc = [s \in Selectors |-> Idle]
    /\ seen = [s \in Selectors |-> NoMsg]
    /\ written = {}

\* the single enqueue
EnqueueOnce == nEnq = 0 /\ CreatePayment(1)

NextDefaultDown ==
    \/ EnqueueOnce
    \/ \E w \in Workers : WorkerStep(w)
    \/ \E p \in Groups : CooldownElapses(p)
    \/ StoreSettles

FairDefaultDown ==
    /\ InitDefaultDown
    /\ [][NextDefaultDown]_vars
    /\ \A w \in Workers : WF_vars(WorkerStep(w))
    /\ \A p \in Groups : WF_vars(CooldownElapses(p))

\* -------------------------------------------------------- health monitor
\* processor_health_monitor_worker: GET {url}/payments/service-health of each
\* processor in turn, then sleep 5 s.
\* The body's "failing" field: a JSON true, a JSON false, or anything else.
JsonFailing == {"true", "false", "absent"}

\* The body's "minResponseTime" field: an integer that fits i64, or anything
\* else (a fraction, a string, an integer beyond i64, nothing at all).
JsonResponseTimes ==
    {[kind |-> "int", n |-> k] : k \in {0 - 1, 0, 99, 100, 101}}
       \cup {[kind |-> "other", n |-> 0]}

\* what the health request may come to
ProbeResponses ==
    {[status |-> st, parses |-> FALSE, failing |-> "absent",
      minResponseTime |-> [kind |-> "other", n |-> 0]] :
        st \in {"2xx", "non2xx", "neterr", "timeout"}}
       \cup {[status |-> "2xx", parses |-> TRUE, failing |-> f,
              minResponseTime |-> m] : f \in JsonFailing, m \in JsonResponseTimes}

\* json["failing"].as_bool().unwrap_or(true)
AsBoolOrTrue(f) == f # "false"

\* json["minResponseTime"].as_i64().unwrap_or(0)
AsI64OrZero(m) == IF m.kind = "int" THEN m.n ELSE 0

\* `as u64`: two's complement reinterpretation.  The model's integers are 32
\* bits wide, so 2^30 stands for 2^64.
U64Modulus == 2 ^ 30
AsU64(n) == n % U64Modulus

\* a monitor that reports every answering processor healthy
ProbedHealth_AlwaysHealthy(r) == "Healthy"

\* health_status of a parsed body
ProbedHealth(r) == IF AsBoolOrTrue(r.failing) THEN "Failing" ELSE "Healthy"

\* min_response_time of a parsed body
ProbedResponseTime(r) == AsU64(AsI64OrZero(r.minResponseTime))

\* the router's map after the probe of `name` came to r: a parsed 2xx body is
\* recorded, an unparseable one is only logged, everything else is recorded
\* as Failing with min_response_time 0
AfterProbe(procs, name, r) ==
    IF r.status = "2xx"
    THEN IF r.parses
         THEN MapPut(procs, name,
                     [name |-> name, health |-> ProbedHealth(r),
                      min_response_time |-> ProbedResponseTime(r)])
         ELSE procs
    ELSE MapPut(procs, name,
                [name |-> name, health |-> "Failing", min_response_time |-> 0])

ProbePc(p) == IF p = "default" THEN "probe_default" ELSE "probe_fallback"

\* a monitor that gives up on a body it cannot parse
MonitorNext_StopsOnParseError(at, r) ==
    IF r.status = "2xx" /\ ~r.parses THEN "stopped"
    ELSE IF at = "probe_default" THEN "probe_fallback" ELSE "sleep"

\* where the loop goes after the probe at `at` came to r: on to the next
\* processor, and to the sleep after the last one, whatever r was
MonitorNext(at, r) == IF at = "probe_default" THEN "probe_fallback" ELSE "sleep"

\* one turn of the `for (name, url) in &urls` body
MonitorProbe(p) ==
    /\ monPc = ProbePc(p)
    /\ \E r \in ProbeResponses :
          /\ processors' = AfterProbe(processors, p, r)
          /\ monPc' = MonitorNext(monPc, r)
          /\ probed' = [name |-> p, resp |-> r]
    /\ UNCHANGED <<queue, hashes, zset, healthStore, breaker, charged, steady,
                   storeSteady, pc, msg, marked, processed, requested,
                   accepted, nEnq, now, selected, summary, down, queueLog, adminVars, posted, routerVars>>

\* sleep(Duration::from_secs(5)), then the next cycle
MonitorSleep ==
    /\ monPc = "sleep"
    /\ monPc' = "probe_default"
    /\ UNCHANGED <<queue, hashes, zset, healthStore, processors, breaker,
                   charged, steady, storeSteady, pc, msg, marked, processed,
                   requested, accepted, nEnq, now, selected, summary, down,
                   probed, queueLog, adminVars, posted, routerVars>>

MonitorStep ==
    \/ \E p \in Groups : MonitorProbe(p)
    \/ MonitorSleep

NextMonitor == MonitorStep

\* the executor keeps running the monitor task
SpecMonitor == Init /\ [][NextMonitor]_vars /\ WF_vars(MonitorStep)

\* ------------------------------------------------- the queue on its own
\* PaymentQueue::push by any producer
QueuePush(cid) ==
    /\ Len(pushed) < MaxPushes
    /\ \E storeOk \in StoreOutcomes :
          LET m == MessageWith(cid, [correlation_id |-> cid, amount |-> AmountOf(cid)])
          IN IF storeOk
             THEN /\ queue' = Push(queue, m)
                  /\ pushed' = Append(pushed, m)
             ELSE UNCHANGED <<queue, pushed>>
    /\ UNCHANGED <<hashes, zset, healthStore, processors, breaker, charged,
                   steady, storeSteady, pc, msg, marked, processed, requested,
                   accepted, nEnq, now, selected, summary, down, monitorVars,
                   popped, adminVars, posted, routerVars>>

\* PaymentQueue::pop by the single consumer
QueuePop ==
    /\ \E storeOk \in StoreOutcomes :
          /\ queue' = QueueAfterPop(queue, storeOk)
          /\ popped' = IF PopResult(queue, storeOk) = "Some"
                       THEN Append(popped, PopValue(queue))
                       ELSE popped
    /\ UNCHANGED <<hashes, zset, healthStore, processors, breaker, charged,
                   steady, storeSteady, pc, msg, marked, processed, requested,
                   accepted, nEnq, now, selected, summary, down, monitorVars,
                   pushed, adminVars, posted, routerVars>>

NextQueue ==
    \/ \E cid \in Ids : QueuePush(cid)
    \/ QueuePop

SpecQueue == Init /\ [][NextQueue]_vars

\* an entry written to the list by something other than push, as
\* test_payment_queue_fault_tolerance does with a raw LPUSH
QueuePushRaw ==
    /\ Len(pushed) < MaxPushes
    /\ queue' = <<Malformed>> \o queue
    /\ pushed' = Append(pushed, Malformed)
    /\ UNCHANGED <<hashes, zset, healthStore, processors, breaker, charged,
                   steady, storeSteady, pc, msg, marked, processed, requested,
                   accepted, nEnq, now, selected, summary, down, monitorVars,
                   popped, adminVars, posted, routerVars>>

NextRawQueue ==
    \/ NextQueue
    \/ QueuePushRaw

SpecRawQueue == Init /\ [][NextRawQueue]_vars

\* POST /payments in front of the queue, with a consumer taking messages
NextIngress ==
    \/ \E cid \in Ids : PostPayments(cid)
    \/ QueuePop

SpecIngress == Init /\ [][NextIngress]_vars

\* ------------------------------------ concurrent consumers of one queue
\* a producer pushes Message::with(Uuid::new_v4(), payment): every message has
\* an id of its own (here its position among the pushes)
ProducerPush(cid) ==
    /\ Len(pushed) < MaxPushes
    /\ \E storeOk \in StoreOutcomes :
          LET m == MessageWith(Len(pushed) + 1,
                               [correlation_id |-> cid, amount |-> AmountOf(cid)])
          IN IF storeOk
             THEN /\ queue' = Push(queue, m)
                  /\ pushed' = Append(pushed, m)
             ELSE UNCHANGED <<queue, pushed>>
    /\ UNCHANGED <<hashes, zset, healthStore, processors, breaker, charged,
                   steady, storeSteady, pc, msg, marked, processed, requested,
                   accepted, nEnq, now, selected, summary, down, monitorVars,
                   popped, adminVars, posted, routerVars>>

\* consumer w calls pop and keeps what it received
ConsumerPop(w) ==
    /\ pc[w] = "pop"
    /\ \E storeOk \in StoreOutcomes :
          /\ queue' = QueueAfterPop(queue, storeOk)
          /\ IF PopResult(queue, storeOk) = "Some"
             THEN /\ msg' = [msg EXCEPT ![w] = PopValue(queue)]
                  /\ popped' = Append(popped, PopValue(queue))
                  /\ pc' = [pc EXCEPT ![w] = "send"]
             ELSE UNCHANGED <<msg, popped, pc>>
    /\ UNCHANGED <<hashes, zset, healthStore, processors, breaker, charged,
                   steady, storeSteady, marked, processed, requested,
                   accepted, nEnq, now, selected, summary, down, monitorVars,
                   pushed, adminVars, posted, routerVars>>

\* consumer w hands the message on and goes back to pop
ConsumerSend(w) ==
    /\ pc[w] = "send"
    /\ msg' = [msg EXCEPT ![w] = NoMsg]
    /\ pc' = [pc EXCEPT ![w] = "pop"]
    /\ UNCHANGED <<queue, hashes, zset, healthStore, processors, breaker,
                   charged, steady, storeSteady, marked, processed, requested,
                   accepted, nEnq, now, selected, summary, down, monitorVars,
                   queueLog, adminVars, posted, routerVars>>

NextConsumers ==
    \/ \E cid \in Ids : ProducerPush(cid)
    \/ \E w \in Workers : ConsumerPop(w)
    \/ \E w \in Workers : ConsumerSend(w)

SpecConsumers == Init /\ [][NextConsumers]_vars

\* ======================================================== claims C1 .. C10
InQueue(cid) == \E i \in DOMAIN queue : queue[i].body.correlation_id = cid
Held(cid) == \E w \in Workers : msg[w] # NoMsg /\ msg[w].body.correlation_id = cid
InLedger(cid) == cid \in DOMAIN zset
GroupsOf(cid) == {g \in Groups : <<g, cid>> \in DOMAIN hashes}
Drained == queue = <<>> /\ \A w \in Workers : msg[w] = NoMsg

\* C1: for every correlation id, the default and the fallback processor
\* together answer 2xx at most once (a processor answers 2xx at most once per
\* id, so more than one 2xx means both processors charged the id)
C1_ChargedAtMostOnce ==
    \A cid \in Ids : ~(cid \in charged["default"] /\ cid \in charged["fallback"])

\* C2: once the queue is empty and no worker holds a message, every id that
\* was enqueued has exactly one per-payment record, counting both groups
C2_ExactlyOneRecord ==
    Drained => \A cid \in accepted : Cardinality(GroupsOf(cid)) = 1

\* C4: every accepted payment is in the queue, in a worker's hands or in the
\* ledger (this worker never drops a message after a 4xx: it re-queues it)
C4_NeverLost ==
    \A cid \in accepted : InQueue(cid) \/ Held(cid) \/ InLedger(cid)

\* C6: while a processor's breaker is Open and its cooldown has not elapsed, no
\* worker starts a POST to it, and an attempt against it ends not processed with
\* the ledger and the processor untouched
PostStarts(w, p) == pc[w] # WaitPc(p) /\ pc'[w] = WaitPc(p)
AttemptReturnsAtOnce(w, p) == pc[w] = CallPc(p) /\ pc'[w] \notin {CallPc(p), WaitPc(p)}
CoolingDown(p) == breaker[p].state = "Open" /\ ~breaker[p].elapsed

C6_OpenBreakerIsolates ==
    [][\A p \in Groups, w \in Workers :
          CoolingDown(p) =>
             /\ ~PostStarts(w, p)
             /\ pc[w] = CallPc(p) /\ pc'[w] # CallPc(p) =>
                   /\ AttemptReturnsAtOnce(w, p)
                   /\ ~processed'[w]
                   /\ hashes' = hashes /\ zset' = zset /\ charged' = charged]_vars

\* C6 witness: a worker is about to attempt a processor whose breaker is Open
\* and cooling down
C6_Witness ==
    \E p \in Groups, w \in Workers : CoolingDown(p) /\ pc[w] = CallPc(p)

\* C8: over an unbounded range, default.totalAmount + fallback.totalAmount
\* equals the sum of the amounts of the distinct processed ids, within 0.01
\* per id (ledger amounts are cents, payment amounts thousandths)
RECURSIVE SumOfAmounts(_)
SumOfAmounts(ids) ==
    IF ids = {} THEN 0
    ELSE LET id == CHOOSE x \in ids : TRUE
         IN AmountOf(id) + SumOfAmounts(ids \ {id})

Abs(x) == IF x < 0 THEN 0 - x ELSE x

C8_Conservation ==
    LET d == CalculatePaymentsSummary(hashes, zset, "default", 0 - 1, now + 1)
        f == CalculatePaymentsSummary(hashes, zset, "fallback", 0 - 1, now + 1)
        ids == DOMAIN zset
    IN Abs(10 * (d.total_amount + f.total_amount) - SumOfAmounts(ids))
          <= 10 * Cardinality(ids)

\* C10: a worker that dequeued a message whose id the ledger marked processed
\* at that moment drops it: no POST for it is ever in flight and it is never
\* up for a re-enqueue
C10_ProcessedIsDropped ==
    \A w \in Workers :
       marked[w] => pc[w] \notin {"wait_default", "wait_fallback", "requeue"}

\* C9: get_processor_for_payment returns default iff default has a recorded
\* health that is Healthy with min_response_time < 100 and a breaker that is not
\* Open; otherwise fallback iff the same holds of fallback; otherwise None; a
\* processor with no recorded health is never returned
Eligible(name) ==
    \E r \in {processors[n] : n \in DOMAIN processors} :
       /\ r.name = name
       /\ r.health = "Healthy"
       /\ r.min_response_time <= 99
       /\ breaker[name].state \in {"Closed", "HalfOpen"}

C9_RouterSelect ==
    LET r == GetProcessorForPayment(processors, breaker)
    IN /\ r \in {"default", "fallback", "None"}
       /\ r = "default" <=> Eligible("default")
       /\ r = "fallback" <=> ~Eligible("default") /\ Eligible("fallback")
       /\ r = "None" <=> ~Eligible("default") /\ ~Eligible("fallback")
       /\ r # "None" => r \in DOMAIN processors

\* C9 witness: default is recorded Healthy at exactly 100 ms with its breaker
\* Closed, fallback is eligible, and the router has just answered fallback
C9_Witness ==
    /\ "default" \in DOMAIN processors
    /\ processors["default"].health = "Healthy"
    /\ processors["default"].min_response_time = 100
    /\ breaker["default"].state = "Closed"
    /\ Eligible("fallback")
    /\ selected = "fallback"
    /\ selected = GetProcessorForPayment(processors, breaker)

\* C7: for every group g and bounds a <= b, range_summary(g, a, b) counts
\* exactly the ledger records with processed_by = g whose requested_at lies in
\* the closed interval [a, b]
RecordsIn(g, a, b) ==
    {k \in DOMAIN hashes :
        /\ hashes[k].processed_by = g
        /\ a <= hashes[k].requested_at
        /\ hashes[k].requested_at <= b}

C7_RangeCorrect ==
    \A g \in Groups, a \in Times, b \in Times :
       a <= b =>
          CalculatePaymentsSummary(hashes, zset, g, a, b).total_requests
             = Cardinality(RecordsIn(g, a, b))

\* C3: if a payment was accepted and from some point on a processor stays
\* reachable (here with the store staying available too), its id is eventually
\* in the ledger
C3_EventuallyInLedger ==
    \A cid \in Ids :
       (/\ <>(cid \in accepted)
        /\ <>[]storeSteady
        /\ \E p \in Groups : <>[]steady[p])
       => <>(cid \in DOMAIN zset)

\* C5: a payment saved while both processors are recorded Healthy with
\* min_response_time < 100 (and the health flags the worker reads say so too)
\* and both breakers are Closed is saved with processed_by = "default"
RecordedHealthyFastClosed(p) ==
    /\ p \in DOMAIN processors
    /\ processors[p].health = "Healthy"
    /\ processors[p].min_response_time < 100
    /\ p \in DOMAIN healthStore
    /\ healthStore[p].failing = 0
    /\ breaker[p].state = "Closed"

C5_PrefersDefault ==
    [][(\A p \in Groups : RecordedHealthyFastClosed(p) /\ RecordedHealthyFastClosed(p)')
         => \A k \in (DOMAIN hashes') \ (DOMAIN hashes) :
               hashes'[k].processed_by = "default"]_vars

\* C11: a worker that ends an iteration without a processed outcome for want
\* of a selectable processor (no health flag was ever written, so both
\* processors read as failing and no attempt was made) pushes the message
\* back behind every message queued at that moment and leaves the ledger alone
NoProcessorSelectable == healthStore = EmptyMap
EndsUnprocessed(w) == pc[w] = "requeue" /\ pc'[w] # "requeue"

C11_RequeueAtTail ==
    [][\A w \in Workers :
          EndsUnprocessed(w) /\ NoProcessorSelectable =>
             /\ Len(queue') = Len(queue) + 1
             /\ queue'[1] = msg[w]
             /\ \A i \in 1 .. Len(queue) : queue'[i + 1] = queue[i]
             /\ hashes' = hashes /\ zset' = zset]_vars

\* C12: when a processor answers 4xx to an attempt, nothing is saved and the
\* worker drops the message: the iteration ends there, the message is not put
\* back on the queue and goes to no further attempt.  (In a good period a
\* processor answers an id it has already charged with 4xx and nothing else.)
AnswersRejected(w, g) ==
    /\ pc[w] = WaitPc(g) /\ pc'[w] # WaitPc(g)
    /\ steady[g] /\ g \notin down
    /\ msg[w].body.correlation_id \in charged[g]

C12_RejectedIsDropped ==
    [][\A w \in Workers, g \in Groups :
          AnswersRejected(w, g) =>
             /\ hashes' = hashes /\ zset' = zset
             /\ pc'[w] = "pop" /\ msg'[w] = NoMsg
             /\ queue' = queue]_vars

\* C13: with default answering 500 to every payment call and fallback in good
\* order, the single enqueued payment ends up recorded under fallback and
\* under fallback only (the store may fail for a while, then stays available)
C13_FallbackRecordsIt ==
    (<>(1 \in accepted) /\ <>[]storeSteady) => <>[](GroupsOf(1) = {"fallback"})

\* C14: when a processor answers 2xx to an attempt for group g and the store
\* is available, the attempt returns Ok(true) and afterwards the ledger holds
\* the record (g, correlation id) with processed_by = g and the id is in the
\* time index.  (Only a 2xx adds an id to what a processor has charged.)
Answers2xx(w, g) ==
    /\ pc[w] = WaitPc(g) /\ pc'[w] # WaitPc(g)
    /\ charged'[g] # charged[g]

ReturnsProcessed(w, g) ==
    IF g = "default" THEN processed'[w] /\ pc'[w] = "health_fallback"
    ELSE pc'[w] = "pop"

C14_SuccessIsSaved ==
    [][\A w \in Workers, g \in Groups :
          Answers2xx(w, g) /\ storeSteady =>
             LET cid == msg[w].body.correlation_id
             IN /\ ReturnsProcessed(w, g)
                /\ <<g, cid>> \in DOMAIN hashes'
                /\ hashes'[<<g, cid>>].processed_by = g
                /\ cid \in DOMAIN zset']_vars

\* C14 witness: with the store available, a processor has charged an id and
\* the ledger holds its record under that processor's group
C14_Witness ==
    /\ storeSteady
    /\ \E g \in Groups, cid \in Ids :
          /\ cid \in charged[g]
          /\ <<g, cid>> \in DOMAIN hashes
          /\ cid \in DOMAIN zset

ProbedParsed ==
    /\ probed # NoMsg
    /\ probed.resp.status = "2xx" /\ probed.resp.parses
    /\ probed.resp.failing \in {"true", "false"}
    /\ probed.resp.minResponseTime.kind = "int"

RecordedAsProbed ==
    /\ probed.name \in DOMAIN processors
    /\ processors[probed.name].health =
          (IF probed.resp.failing = "true" THEN "Failing" ELSE "Healthy")
    /\ processors[probed.name].min_response_time = probed.resp.minResponseTime.n

C16_ProbeIsRecorded == ProbedParsed => RecordedAsProbed

\* C16 amended: the same for a minResponseTime that is not negative
C16_NonNegativeProbeIsRecorded ==
    ProbedParsed /\ probed.resp.minResponseTime.n >= 0 => RecordedAsProbed

\* C16 witness: the latest probe got failing = false and minResponseTime = 99
\* and the processor is recorded Healthy at 99
C16_Witness ==
    /\ ProbedParsed
    /\ probed.resp.failing = "false"
    /\ probed.resp.minResponseTime.n = 99
    /\ processors[probed.name].health = "Healthy"
    /\ processors[probed.name].min_response_time = 99

\* C17: after a probe that ended in a non-2xx status, an unparseable body, a
\* network error or a timeout, the processor is recorded Failing
ProbedFailure ==
    /\ probed # NoMsg
    /\ \/ probed.resp.status \in {"non2xx", "neterr", "timeout"}
       \/ probed.resp.status = "2xx" /\ ~probed.resp.parses

C17_FailedProbeRecordsFailing ==
    ProbedFailure =>
       /\ probed.name \in DOMAIN processors
       /\ processors[probed.name].health = "Failing"

\* C18: whatever the probes come to, the monitor keeps completing its cycle:
\* it is always one of its three places, sleeps again and again and starts a
\* new cycle again and again
C18_MonitorNeverStops ==
    /\ [](monPc \in {"probe_default", "probe_fallback", "sleep"})
    /\ []<>(monPc = "sleep")
    /\ []<>(monPc = "probe_default")

\* C18 witness: the monitor sleeps after a cycle whose last probe could not be
\* parsed, with the other processor recorded Failing by a probe that failed
C18_Witness ==
    /\ monPc = "sleep"
    /\ probed # NoMsg
    /\ probed.resp.status = "2xx" /\ ~probed.resp.parses
    /\ "default" \in DOMAIN processors
    /\ processors["default"].health = "Failing"

\* C19: when pop returns None or Err the worker goes to sleep with the queue,
\* the ledger and the processors untouched and no message in hand, and after
\* the sleep it is back at the pop; a pop on an empty queue never yields a
\* message; the worker is always somewhere in its loop and can always go on
WorkerPcs ==
    {"pop", "backoff", "check", "health_default", "call_default",
     "wait_default", "health_fallback", "call_fallback", "wait_fallback",
     "requeue"}

PopGaveNothing(w) == pc[w] = "pop" /\ pc'[w] = "backoff"
WakesUp(w) == pc[w] = "backoff" /\ pc'[w] # "backoff"

C19_EmptyPopBacksOff ==
    /\ [](\A w \in Workers : pc[w] \in WorkerPcs /\ ENABLED WorkerStep(w))
    /\ [][\A w \in Workers :
             /\ PopGaveNothing(w) =>
                   /\ queue' = queue /\ hashes' = hashes /\ zset' = zset
                   /\ charged' = charged /\ msg'[w] = NoMsg
             /\ pc[w] = "pop" /\ pc'[w] # "pop" /\ queue = <<>> =>
                   PopGaveNothing(w)
             /\ WakesUp(w) =>
                   /\ pc'[w] = "pop"
                   /\ queue' = queue /\ hashes' = hashes /\ zset' = zset
                   /\ charged' = charged]_vars

\* C19 witness: a worker sleeps after a pop that failed while a message was
\* waiting in the queue
C19_Witness == \E w \in Workers : pc[w] = "backoff" /\ Len(queue) > 0

\* C20: with no re-enqueue in between, a single consumer's pops return the
\* messages in the order they were pushed: what was popped so far is the
\* beginning of what was pushed, and the list holds the rest
C20_Fifo ==
    /\ Len(popped) <= Len(pushed)
    /\ \A i \in 1 .. Len(popped) : popped[i] = pushed[i]
    /\ Len(queue) = Len(pushed) - Len(popped)

\* C20 witness: two different messages were popped while a third one waits
C20_Witness ==
    /\ Len(popped) >= 2
    /\ popped[1] # popped[2]
    /\ Len(queue) > 0

\* C21: an entry that cannot be decoded makes pop return an error and is
\* removed; it never comes back, and the pops that follow return the remaining
\* entries in order.  The list always holds exactly the entries pushed and not
\* yet taken, oldest at the right end; the messages returned so far are the
\* decodable ones among the entries taken, in the order they were pushed.
Reverse(s) == [i \in 1 .. Len(s) |-> s[Len(s) + 1 - i]]
Taken == SubSeq(pushed, 1, Len(pushed) - Len(queue))
MalformedAtHead == Len(queue) > 0 /\ ~Decodes(PopValue(queue))

C21_MalformedIsDiscarded ==
    /\ Len(queue) <= Len(pushed)
    /\ pushed = Taken \o Reverse(queue)
    /\ popped = SelectSeq(Taken, Decodes)
    /\ MalformedAtHead =>
          /\ PopResult(queue, TRUE) = "Err"
          /\ QueueAfterPop(queue, TRUE) = PopRest(queue)

\* C21 witness: the first entry pushed was undecodable and is gone, the
\* message pushed after it has been returned, and another undecodable entry
\* is now the next to be taken
C21_Witness ==
    /\ Len(pushed) >= 3
    /\ pushed[1] = Malformed
    /\ Len(popped) >= 1 /\ popped[1] = pushed[2]
    /\ MalformedAtHead

\* C22: with several consumers popping the same queue, every pushed message
\* is returned by exactly one pop: it is either still in the list, once, or
\* among the messages returned, once, and no two consumers hold the same
\* message
Occurrences(seq, m) == Cardinality({i \in DOMAIN seq : seq[i] = m})

C22_ExactlyOnePop ==
    /\ \A i \in DOMAIN pushed :
          Occurrences(popped, pushed[i]) + Occurrences(queue, pushed[i]) = 1
    /\ Len(popped) + Len(queue) = Len(pushed)
    /\ \A w \in Workers : msg[w] # NoMsg => Occurrences(popped, msg[w]) = 1
    /\ \A w1, w2 \in Workers : w1 # w2 /\ msg[w1] # NoMsg => msg[w1] # msg[w2]

\* C22 witness: two consumers hold a message each at the same time while
\* another message waits in the list
C22_Witness ==
    /\ \A w \in Workers : msg[w] # NoMsg
    /\ Len(queue) > 0

\* C23: save makes the record and the index entry visible together: in every
\* state a reader or a crash can find the ledger in, an id is in the time
\* index exactly when it has a record
HasRecord(cid) == \E g \in Groups : <<g, cid>> \in DOMAIN hashes

C23_SavedTogether ==
    \A cid \in Ids : cid \in DOMAIN zset <=> HasRecord(cid)

\* C23 witness: one id has been saved under both groups while another id has
\* no record and no index entry
C23_Witness ==
    /\ \E cid \in Ids : \A g \in Groups : <<g, cid>> \in DOMAIN hashes
    /\ \E cid \in Ids : cid \notin DOMAIN zset /\ ~HasRecord(cid)

\* C24: once a save for an id has succeeded the id stays processed: it never
\* leaves the time index, and every worker that has dequeued a message with
\* that id skips it (drops the message and goes back to the pop, with no
\* attempt and no re-enqueue)
LeavesCheck(w) == pc[w] = "check" /\ pc'[w] # "check"

C24_SavedIsSkipped ==
    [][/\ \A cid \in DOMAIN zset : cid \in DOMAIN zset'
       /\ \A w \in Workers :
             LeavesCheck(w) /\ IsAlreadyProcessed(zset, msg[w].body.correlation_id) =>
                /\ pc'[w] = "pop" /\ msg'[w] = NoMsg
                /\ queue' = queue]_vars

\* C25: when clear() returns success, is_processed is false for every id and
\* the summary of either group over any range is (0, 0), whatever was saved
\* before or while the call ran
ClearReturnsOk == clearPc = "del_set" /\ clearPc' = "idle" /\ clearResult' = "Ok"
NoSummary == [total_requests |-> 0, total_amount |-> 0]

C25_ClearEmpties ==
    [][ClearReturnsOk =>
          /\ \A cid \in Ids : ~IsAlreadyProcessed(zset', cid)
          /\ \A g \in Groups, a \in Times, b \in Times :
                CalculatePaymentsSummary(hashes', zset', g, a, b) = NoSummary]_vars

\* C25 witness: clear() has just returned success after deleting records that
\* were there when it started, and a record saved while it ran is still there
C25_Witness ==
    /\ clearResult = "Ok" /\ clearPc = "idle"
    /\ clearKeys # {}
    /\ zset = EmptyMap
    /\ hashes # EmptyMap

\* C26: a summary with from omitted uses now - 30 days, with to omitted uses
\* now + 30 days; each group's result is the ledger's range summary of that
\* group over those bounds, and no record counted has a requested_at outside
\* them
SummaryReturns == summary' # summary /\ "from" \in DOMAIN summary'

C26_SummaryWindow ==
    [][SummaryReturns =>
          LET r == summary'
          IN /\ r.query_from = {} => r.from = now - ThirtyDays
             /\ r.query_to = {} => r.to = now + ThirtyDays
             /\ \A g \in Groups :
                   /\ r[g] = CalculatePaymentsSummary(hashes, zset, g, r.from, r.to)
                   /\ \A id \in SummaryHits(hashes, zset, g, r.from, r.to) :
                         /\ r.from <= hashes[<<g, id>>].requested_at
                         /\ hashes[<<g, id>>].requested_at <= r.to]_vars

\* C27: a POST /payments answered with 200 has put exactly one message with
\* that correlationId and amount at the tail of the queue (the end opposite
\* to the one pop takes from); when the store is unreachable the answer is a
\* 5xx and the queue is as it was
PostAnswered == posted' # posted \/ pushed' # pushed

C27_PostEnqueuesOnce ==
    [][PostAnswered =>
          LET r == posted'
              m == MessageWith(r.cid, [correlation_id |-> r.cid,
                                       amount |-> AmountOf(r.cid)])
          IN /\ r.status = 200 =>
                   /\ Len(queue') = Len(queue) + 1
                   /\ queue'[1] = m
                   /\ \A i \in 1 .. Len(queue) : queue'[i + 1] = queue[i]
             /\ ~r.reachable =>
                   /\ r.status >= 500 /\ r.status <= 599
                   /\ queue' = queue]_vars

\* C27 witness: a POST was answered 200 while an earlier message was waiting,
\* and the new message is behind it
C27_Witness ==
    /\ posted # NoMsg
    /\ posted.status = 200
    /\ Len(queue) >= 2
    /\ queue[1].id = posted.cid
    /\ PopValue(queue).id # posted.cid

\* C28: a probe of p that failed (non-2xx, unparseable body, network error,
\* timeout) leaves p's recorded min_response_time as it was before the probe
ProbeEnds == monPc # "sleep" /\ monPc' # monPc

C28_FailedProbeKeepsResponseTime ==
    [][ProbeEnds /\ ProbedFailure' /\ probed'.name \in DOMAIN processors =>
          /\ probed'.name \in DOMAIN processors'
          /\ processors'[probed'.name].min_response_time
                = processors[probed'.name].min_response_time]_vars

\* C29: a 4xx answer leaves the answering processor's breaker, its state and
\* its window of outcomes, exactly as it was when the call was admitted
C29_RejectionLeavesBreaker ==
    [][\A w \in Workers, g \in Groups :
          AnswersRejected(w, g) => breaker'[g] = breaker[g]]_vars

\* C30: when the processor answers 5xx, or the request times out or cannot be
\* sent, the closure returns Err, so the breaker is told of a failure, execute
\* returns an error and nothing is written to the ledger.  A processor that is
\* down answers 5xx to every call: at each of its answers the breaker records a
\* failure, the ledger is unchanged and the attempt counts as not processed.
TransientAnswers == {"5xx", "neterr"}
AnswersDown(w, g) == pc[w] = WaitPc(g) /\ pc'[w] # WaitPc(g) /\ g \in down

C30_TransientFailure ==
    /\ \A resp \in TransientAnswers :
          /\ OperationFailed(resp)
          /\ \A saveOk \in BOOLEAN : ExecuteOutcome(resp, saveOk) = "Err"
    /\ [][\A w \in Workers, g \in Groups :
             AnswersDown(w, g) =>
                /\ breaker'[g] = BreakerRecord(breaker[g], TRUE)
                /\ breaker'[g] # breaker[g]
                /\ hashes' = hashes /\ zset' = zset
                /\ ~processed'[w]
                /\ pc'[w] = AfterAttempt(g, FALSE)]_vars

\* C30 witness: default, which is down, has answered a worker's attempt: its
\* breaker holds that failure, the ledger is empty and the worker, still
\* holding the message, turns to fallback
C30_Witness ==
    \E w \in Workers :
       /\ "default" \in down
       /\ pc[w] = "health_fallback"
       /\ msg[w] # NoMsg
       /\ breaker["default"].window = <<TRUE>>
       /\ hashes = EmptyMap /\ zset = EmptyMap

\* C31: with several workers, a HalfOpen breaker admits a single call: the
\* call admitted once the cooldown is over turns the breaker HalfOpen, and no
\* call is admitted while it is HalfOpen.  A call that returns while the
\* breaker is HalfOpen closes it, with the window reset, when it succeeded, and
\* opens it again, with the cooldown starting afresh, when it failed.
Admitted(w, g) == pc[w] = CallPc(g) /\ pc'[w] = WaitPc(g)
Returns(w, g) == pc[w] = WaitPc(g) /\ pc'[w] # WaitPc(g)
OpenAfresh == [state |-> "Open", window |-> <<>>, elapsed |-> FALSE,
               probing |-> FALSE]

DequeuedInCooldown(w, cid) ==
    /\ pc[w] = "check"
    /\ msg[w] # NoMsg
    /\ msg[w].body.correlation_id = cid
    /\ CoolingDown("default")
RecordedByFallback(cid) == <<"fallback", cid>> \in DOMAIN hashes

C32_TripsThenFallback ==
    /\ [](breaker["default"].state = "Closed" =>
             Failures(breaker["default"].window) < BreakerWindow)
    /\ [][\A w \in Workers :
             CoolingDown("default") => ~PostStarts(w, "default")]_vars
    /\ (<>[]storeSteady) =>
          \A w \in Workers, cid \in Ids :
             DequeuedInCooldown(w, cid) ~> RecordedByFallback(cid)

\* C33: whatever a get_processor_for_payment call has read of a processor so
\* far (its health, its min_response_time, its url), under any interleaving
\* with the health updates, is part of one single inserted record: the fields
\* are never those of two different updates
ReadOf(s, r) == \A f \in DOMAIN seen[s] : r[f] = seen[s][f]

C33_SelectSeesOneUpdate ==
    \A s \in Selectors :
       seen[s] # NoMsg => \E r \in written : ReadOf(s, r)

\* C33 witness: a call has returned a processor with the triple it read, while
\* another call is in the middle of its reads and three different records
\* have been inserted for that processor
C33_Witness ==
    \E s1 \in Selectors, s2 \in Selectors :
       /\ selPc[s1] = Returned
       /\ seen[s1] \in written
       /\ selPc[s2].step = "url"
       /\ selPc[s2].arm = seen[s1].name
       /\ Cardinality({r \in written : r.name = seen[s1].name}) = 3

\* C34: every enqueue, the first one by ingress or a re-enqueue by a worker,
\* puts into the queue a message whose envelope id no earlier enqueue used: a
\* step that lengthens the queue puts at its left end an id that no message
\* in the queue or in a worker's hands carries (each of those came from an
\* earlier enqueue)
EnvelopeIdsInUse ==
    {queue[i].id : i \in DOMAIN queue}
       \cup {msg[w].id : w \in {v \in Workers : msg[v] # NoMsg}}

C34_FreshEnvelopeId ==
    [][Len(queue') > Len(queue) => Head(queue').id \notin EnvelopeIdsInUse]_vars

\* C35: a second ProcessPayment for a correlation id that the same processor
\* has already charged returns Ok(false) (the processor, in good order,
\* refuses the repeated id), and whatever the processor answers the attempt
\* leaves the ledger as the first attempt wrote it and counts as not processed
ChargedBefore(w, g) == msg[w] # NoMsg /\ msg[w].body.correlation_id \in charged[g]

C35_SecondAttemptNotProcessed ==
    /\ [](\A w \in Workers, g \in Groups :
            pc[w] = WaitPc(g) /\ ChargedBefore(w, g) /\ steady[g] /\ g \notin down =>
               \A resp \in Responses(g, msg[w].body.correlation_id),
                  saveOk \in StoreOutcomes :
                     ExecuteOutcome(resp, saveOk) = "Ok(false)")
    /\ [][\A w \in Workers, g \in Groups :
             Returns(w, g) /\ ChargedBefore(w, g) =>
                /\ hashes' = hashes /\ zset' = zset
                /\ charged' = charged
                /\ ~processed'[w]
                /\ pc'[w] = AfterAttempt(g, FALSE)]_vars

\* C35 witness: a second attempt is in flight to a processor in good order
\* that has charged the id, with the first attempt's record in the ledger
C35_Witness ==
    \E w \in Workers, g \in Groups :
       /\ pc[w] = WaitPc(g)
       /\ ChargedBefore(w, g)
       /\ steady[g] /\ g \notin down
       /\ <<g, msg[w].body.correlation_id>> \in DOMAIN hashes
       /\ hashes[<<g, msg[w].body.correlation_id>>].processed_by = g

\* C36: with the store available from some point on, every payment a
\* processor answered 2xx for eventually has a ledger record under that
\* processor's group, also when the save at the moment of the 2xx failed and
\* the processor answers 4xx to every later attempt for the id
C36_ChargedIsEventuallyRecorded ==
    (<>[]storeSteady) =>
       \A g \in Groups, cid \in Ids :
          (cid \in charged[g]) ~> (<<g, cid>> \in DOMAIN hashes)

\* C37: a worker goes on from the is_already_processed check towards an
\* outbound call only if the check completed and returned false, so never for
\* an id that is in the time index at the moment of the check (a completed
\* check returns true for it, and a check that cannot be completed must end
\* the iteration without a call)
GoesOnToCall(w) == LeavesCheck(w) /\ pc'[w] = "health_default"

C37_CallOnlyAfterCheckSaidNo ==
    [][\A w \in Workers :
          GoesOnToCall(w) =>
             ~IsAlreadyProcessed(zset, msg[w].body.correlation_id)]_vars

\* C38: in every ledger state, the states between the steps of a clear() that
\* runs beside saves included, the ids of the time index are exactly the ids
\* that have a per-group record
RecordedIds == {k[2] : k \in DOMAIN hashes}

C38_IndexMatchesRecordsThroughClear == DOMAIN zset = RecordedIds

\* C39: every ledger record (g, correlation id) a worker wrote was preceded by
\* a 2xx from processor g to a call for that id: the ledger changes only at
\* the step where a worker's call to g is answered 2xx, by the record of that
\* call's payment under g, and at no short-circuit, 4xx, 5xx, timeout or
\* connection error
SavedAt2xx(w, g) ==
    /\ Answers2xx(w, g)
    /\ msg[w].body.correlation_id \in charged'[g]
    /\ hashes' = SaveHashes(hashes,
                    ProcessedPayment(msg[w].body, requested[w], now, g))

C39_RecordOnlyAfter2xx ==
    /\ [](\A k \in DOMAIN hashes :
             k[2] \in charged[k[1]] /\ hashes[k].processed_by = k[1])
    /\ [][hashes' # hashes \/ zset' # zset =>
             \E w \in Workers, g \in Groups : SavedAt2xx(w, g)]_vars

\* C39 witness: an id is recorded under fallback, which charged it, and not
\* under default, whose failed call for it is in its breaker's window
C39_Witness ==
    \E cid \in Ids :
       /\ <<"fallback", cid>> \in DOMAIN hashes
       /\ <<"default", cid>> \notin DOMAIN hashes
       /\ cid \in charged["fallback"] \ charged["default"]
       /\ Failures(breaker["default"].window) > 0

\* C40: clear() is idempotent: from any ledger state, one with no per-payment
\* record included, it returns success when the store is available, so two
\* calls in succession both succeed; in the model, whatever keys the call has
\* listed, its DEL of them is accepted by an available store
C40_ClearSucceedsOnAnyLedger ==
    clearPc = "del_keys" => DelAccepted(clearKeys, TRUE)

====
